---- MODULE Spec2Model ----
(***************************************************************************)
(* Model of the job queue of src/app.py (Spleeter API server): the         *)
(* /api/separate handler, start_queue_processor, the process_queue worker  *)
(* thread, run_separation, the /api/status poll and /api/queue.            *)
(*                                                                         *)
(* Atomicity.  queue_lock is held by the thread that stands inside one of  *)
(* the two blocks that iterate over the store while holding it (the count  *)
(* of /api/separate and the renumbering of process_queue); the blocks of   *)
(* start_queue_processor and of the scan of process_queue are one action   *)
(* each, taken while the lock is free.  run_separation, /api/status and    *)
(* /api/queue never take the lock: every statement of theirs that reads or *)
(* writes shared state is its own action, so they interleave statement by  *)
(* statement with each other and with the blocks that hold the lock.       *)
(***************************************************************************)
EXTENDS Integers, Sequences, FiniteSets, TLC

VARIABLES
    jobs,                \* app.py:21   OrderedDict, as a sequence in insertion order
    is_processing,       \* app.py:23
    separator_instance,  \* app.py:26   None, or the model the live instance was built for
    current_model,       \* app.py:27
    liveEngines,         \* number of Separator objects constructed and not yet released
    req,                 \* the /api/separate request threads
    worker,              \* the process_queue threads
    inputs,              \* ids of the jobs whose input.mp3 is on disk
    qs,                  \* the /api/queue request thread
    st                   \* the /api/status request thread

vars == <<jobs, is_processing, separator_instance, current_model, liveEngines,
          req, worker, inputs, qs, st>>

(* ---------------------------- bounds ---------------------------------- *)
MaxReq == 2
MaxWorkers == 2

\* the parameters of the retention sweep sweep(capacity, floor), scaled to
\* MaxReq (the specification's example uses 100 and 50)
SweepCapacity == 1
SweepFloor == 0

Reqs == 1..MaxReq
Workers == 1..MaxWorkers

(* ---------------------------- constants -------------------------------- *)
MAX_DURATION_SECONDS == 600

None == "None"
\* values of the form field 'stems'; "abc" stands for a malformed value
StemsInputs == {"2", "4", "5", "abc"}
\* the profiles the engine has a model for once '5' is downgraded
Supported == {"2", "4"}
\* measured durations; Unknown stands for librosa.get_duration raising
Unknown == -1
Durations == {MAX_DURATION_SECONDS, MAX_DURATION_SECONDS + 1, Unknown}

Terminal == {"complete", "error"}
\* app.py:144  the statuses a submission counts
NonTerminal == {"queued", "processing"}
NoError == "absent"
\* a key that a response does not (yet) carry
NotSet == -1

(* ---------------------------- helpers ---------------------------------- *)
\* app.py:121-122
NormalizeStems(s) == IF s = "5" THEN "4" ELSE s

\* app.py:213
ModelName(s) == IF s = "2" THEN "spleeter:2stems"
                ELSE IF s = "4" THEN "spleeter:4stems"
                ELSE "spleeter:abcstems"

TooLong_ge(d) == d >= MAX_DURATION_SECONDS
\* app.py:136
TooLong(d) == d > MAX_DURATION_SECONDS

LastQueued(js) ==
    IF \E i \in DOMAIN js : js[i].status = "queued"
    THEN CHOOSE i \in DOMAIN js :
            /\ js[i].status = "queued"
            /\ \A k \in DOMAIN js : js[k].status = "queued" => k <= i
    ELSE 0
\* app.py:183-186   index of the first queued job in insertion order, 0 if none
FirstQueued(js) ==
    IF \E i \in DOMAIN js : js[i].status = "queued"
    THEN CHOOSE i \in DOMAIN js :
            /\ js[i].status = "queued"
            /\ \A k \in DOMAIN js : js[k].status = "queued" => i <= k
    ELSE 0

\* jobs[job_id][f] = v
SetField(js, id, f, v) ==
    [i \in DOMAIN js |-> IF js[i].id = id THEN [js[i] EXCEPT ![f] = v] ELSE js[i]]

JobIn(js, id) == js[CHOOSE i \in DOMAIN js : js[i].id = id]
JobOf(id) == JobIn(jobs, id)
InStore(id) == \E i \in DOMAIN jobs : jobs[i].id = id

AlreadyRunning_never == FALSE
\* app.py:169
AlreadyRunning == is_processing

NeedsClear_never(inst, cur, model) == FALSE
NeedsClear_sameModel(inst, cur, model) == inst # None /\ cur = model
\* app.py:219
NeedsClear(inst, cur, model) == inst # None /\ cur # model

NeedsLoad_always(inst, cur, model) == TRUE
NeedsLoad_modelOnly(inst, cur, model) == cur # model
\* app.py:230
NeedsLoad(inst, cur, model) == inst = None \/ cur # model

\* app.py:248-254  the names in the files list of a job whose stems directory
\* holds the .wav files of its profile.  A files list is modelled as the set
\* of its names: the list has them in the order of os.listdir, which is
\* arbitrary, and every such order is the same set.
StemFiles(s) == IF s = "2" THEN {"vocals", "accompaniment"}
                ELSE {"vocals", "drums", "bass", "other"}

\* a process_queue thread that does not exist (not started, or returned)
IdleWorker == [pc |-> "idle", job |-> 0, exc |-> NoError, idx |-> 0, position |-> 0]

\* a /api/separate request thread outside the count of app.py:144
IdleRequest == [pc |-> "idle", duration |-> Unknown, stems |-> None,
                idx |-> 0, queue_position |-> 0]

\* a /api/queue request that has not started its first scan
IdleQueueStatus == [pc |-> "idle", cur |-> 0, n |-> 0, j |-> 0,
                    queued |-> 0, processing |-> 0, completed |-> 0]

\* a /api/status request that has not started; the response is empty
IdleStatus == [pc |-> "idle", job |-> 0, status |-> None, progress |-> NotSet,
               files |-> {}, queue_position |-> NotSet, message |-> None,
               message_position |-> NotSet, error |-> None]

\* app.py:143, 168, 182, 196  queue_lock is held by a thread inside the count
\* of separate_audio or inside the renumbering of process_queue
queue_lock_locked ==
    \/ \E r \in Reqs : req[r].pc = "count"
    \/ \E w \in Workers : worker[w].pc = "renumber"

(* ---------------------------- initial state ---------------------------- *)
Init ==
    /\ jobs = <<>>
    /\ is_processing = FALSE
    /\ separator_instance = None
    /\ current_model = None
    /\ liveEngines = 0
    /\ req = [r \in Reqs |-> IdleRequest]
    /\ worker = [w \in Workers |-> IdleWorker]
    /\ inputs = {}
    /\ qs = IdleQueueStatus
    /\ st = IdleStatus

(* ---------------------- /api/separate (app.py:112-164) ----------------- *)
\* app.py:117-141: read the form, save the upload, measure the duration.
\* Request ids are handed out in order (uuid4 values are interchangeable).
separate_audio_admit(r) ==
    /\ req[r].pc = "idle"
    /\ \A q \in Reqs : q < r => req[q].pc # "idle"
    /\ \E s \in StemsInputs, d \in Durations :
          /\ inputs' = inputs \cup {r}
          /\ IF d # Unknown /\ TooLong(d)
             THEN req' = [req EXCEPT ![r] = [IdleRequest EXCEPT
                                                !.pc = "rejected", !.duration = d]]
             ELSE req' = [req EXCEPT ![r] = [IdleRequest EXCEPT
                                                !.pc = "insert", !.duration = d,
                                                !.stems = NormalizeStems(s)]]
    /\ UNCHANGED <<jobs, is_processing, separator_instance, current_model,
                   liveEngines, worker, qs, st>>

\* app.py:143-144: the request takes queue_lock and starts the list
\* comprehension over jobs.values()
separate_audio_lock(r) ==
    /\ req[r].pc = "insert"
    /\ ~queue_lock_locked
    /\ req' = [req EXCEPT ![r].pc = "count", ![r].idx = 1, ![r].queue_position = 0,
                          ![r].duration = Unknown]
    /\ UNCHANGED <<jobs, is_processing, separator_instance, current_model,
                   liveEngines, worker, inputs, qs, st>>

\* app.py:144: the comprehension reads the status of the next job; the
\* worker, which writes without the lock, may change statuses in between
separate_audio_count(r) ==
    /\ req[r].pc = "count"
    /\ req[r].idx <= Len(jobs)
    /\ req' = [req EXCEPT ![r].idx = req[r].idx + 1,
                          ![r].queue_position =
                              IF jobs[req[r].idx].status \in NonTerminal
                              THEN req[r].queue_position + 1
                              ELSE req[r].queue_position]
    /\ UNCHANGED <<jobs, is_processing, separator_instance, current_model,
                   liveEngines, worker, inputs, qs, st>>

\* app.py:146-154: the comprehension has ended; the job is stored with the
\* count as its position and queue_lock is released
separate_audio_insert(r) ==
    /\ req[r].pc = "count"
    /\ req[r].idx > Len(jobs)
    /\ jobs' = Append(jobs, [id |-> r,
                             status |-> "queued",
                             progress |-> 0,
                             stems |-> req[r].stems,
                             files |-> {},
                             queue_position |-> req[r].queue_position,
                             error |-> NoError])
    /\ req' = [req EXCEPT ![r] = [IdleRequest EXCEPT !.pc = "start"]]
    /\ UNCHANGED <<is_processing, separator_instance, current_model,
                   liveEngines, worker, inputs, qs, st>>

start_queue_processor_localFlag(r) ==
    /\ req[r].pc = "start"
    /\ ~queue_lock_locked
    /\ IF AlreadyRunning
       THEN req' = [req EXCEPT ![r].pc = "done"]
       ELSE req' = [req EXCEPT ![r].pc = "spawn"]
    /\ UNCHANGED <<jobs, is_processing, separator_instance, current_model,
                   liveEngines, worker, inputs, qs, st>>
\* app.py:166-171
start_queue_processor(r) ==
    /\ req[r].pc = "start"
    /\ ~queue_lock_locked
    /\ IF AlreadyRunning
       THEN /\ req' = [req EXCEPT ![r].pc = "done"]
            /\ UNCHANGED is_processing
       ELSE /\ req' = [req EXCEPT ![r].pc = "spawn"]
            /\ is_processing' = TRUE
    /\ UNCHANGED <<jobs, separator_instance, current_model, liveEngines,
                   worker, inputs, qs, st>>

\* app.py:173-174
thread_start(r) ==
    /\ req[r].pc = "spawn"
    /\ \E w \in Workers :
          /\ worker[w].pc = "idle"
          /\ \A v \in Workers : v < w => worker[v].pc # "idle"
          /\ worker' = [worker EXCEPT ![w] = [IdleWorker EXCEPT !.pc = "scan"]]
    /\ req' = [req EXCEPT ![r].pc = "done"]
    /\ UNCHANGED <<jobs, is_processing, separator_instance, current_model,
                   liveEngines, inputs, qs, st>>

(* ---------------------- process_queue (app.py:176-201) ----------------- *)
Goto(w, l) == worker' = [worker EXCEPT ![w].pc = l]
\* app.py:264  an exception raised inside the try block enters the handler
Raise(w, e) == worker' = [worker EXCEPT ![w].pc = "except", ![w].exc = e]

process_queue_exit_keepFlag(w) ==
    /\ worker' = [worker EXCEPT ![w] = IdleWorker]
    /\ UNCHANGED is_processing
\* app.py:188-190
process_queue_exit(w) ==
    /\ worker' = [worker EXCEPT ![w] = IdleWorker]
    /\ is_processing' = FALSE

\* app.py:182-192
process_queue_scan(w) ==
    /\ worker[w].pc = "scan"
    /\ ~queue_lock_locked
    /\ IF FirstQueued(jobs) = 0
       THEN process_queue_exit(w)
       ELSE /\ worker' = [worker EXCEPT ![w].pc = "status",
                                        ![w].job = jobs[FirstQueued(jobs)].id]
            /\ UNCHANGED is_processing
    /\ UNCHANGED <<jobs, separator_instance, current_model, liveEngines,
                   req, inputs, qs, st>>

\* app.py:196-198: run_separation has returned; the worker takes queue_lock,
\* sets position = 0 and starts the loop over jobs.items()
process_queue_recompute_begin(w) ==
    /\ worker[w].pc = "recompute"
    /\ ~queue_lock_locked
    /\ worker' = [worker EXCEPT ![w].pc = "renumber", ![w].idx = 1,
                                ![w].position = 0]
    /\ UNCHANGED <<jobs, is_processing, separator_instance, current_model,
                   liveEngines, req, inputs, qs, st>>

\* app.py:198-201: one turn of the loop: a 'queued' job gets the next
\* position; when the loop has ended queue_lock is released and the worker
\* goes back to its scan
process_queue_recompute(w) ==
    /\ worker[w].pc = "renumber"
    /\ IF worker[w].idx <= Len(jobs)
       THEN IF jobs[worker[w].idx].status = "queued"
            THEN /\ jobs' = [jobs EXCEPT ![worker[w].idx].queue_position =
                                             worker[w].position]
                 /\ worker' = [worker EXCEPT ![w].idx = worker[w].idx + 1,
                                             ![w].position = worker[w].position + 1]
            ELSE /\ worker' = [worker EXCEPT ![w].idx = worker[w].idx + 1]
                 /\ UNCHANGED jobs
       ELSE /\ worker' = [worker EXCEPT ![w] = [IdleWorker EXCEPT !.pc = "scan"]]
            /\ UNCHANGED jobs
    /\ UNCHANGED <<is_processing, separator_instance, current_model,
                   liveEngines, req, inputs, qs, st>>

(* ---------------------- run_separation (app.py:203-271) ---------------- *)
\* one assignment jobs[job_id][f] = v of run_separation, then on to label l
Assign(w, at, f, v, l) ==
    /\ worker[w].pc = at
    /\ jobs' = SetField(jobs, worker[w].job, f, v)
    /\ Goto(w, l)
    /\ UNCHANGED <<is_processing, separator_instance, current_model,
                   liveEngines, req, inputs, qs, st>>

\* app.py:207
rs_status(w) == Assign(w, "status", "status", "processing", "progress5")
\* app.py:208
rs_progress5(w) == Assign(w, "progress5", "progress", 5, "qpos0")
\* app.py:209
rs_qpos0(w) == Assign(w, "qpos0", "queue_position", 0, "clear")

\* app.py:219-223
rs_clear(w) ==
    /\ worker[w].pc = "clear"
    /\ IF NeedsClear(separator_instance, current_model,
                     ModelName(JobOf(worker[w].job).stems))
       THEN /\ separator_instance' = None
            /\ liveEngines' = liveEngines - 1
       ELSE UNCHANGED <<separator_instance, liveEngines>>
    /\ Goto(w, "progress10")
    /\ UNCHANGED <<jobs, is_processing, current_model, req, inputs, qs, st>>

\* app.py:225
rs_progress10(w) == Assign(w, "progress10", "progress", 10, "load")

\* app.py:230-232: Separator(model) is evaluated (and may raise) before the
\* name separator_instance is rebound; it always raises for a model name the
\* engine has no configuration for
rs_load(w) ==
    /\ worker[w].pc = "load"
    /\ IF NeedsLoad(separator_instance, current_model,
                    ModelName(JobOf(worker[w].job).stems))
       THEN \/ /\ JobOf(worker[w].job).stems \in Supported
               /\ liveEngines' = liveEngines + 1
               /\ Goto(w, "bind")
            \/ /\ Raise(w, "construct")
               /\ UNCHANGED liveEngines
       ELSE /\ Goto(w, "progress30")
            /\ UNCHANGED liveEngines
    /\ UNCHANGED <<jobs, is_processing, separator_instance, current_model,
                   req, inputs, qs, st>>

\* app.py:232-233: rebinding the name drops the instance it held, if any
rs_bind(w) ==
    /\ worker[w].pc = "bind"
    /\ separator_instance' = ModelName(JobOf(worker[w].job).stems)
    /\ current_model' = ModelName(JobOf(worker[w].job).stems)
    /\ liveEngines' = IF separator_instance # None THEN liveEngines - 1
                      ELSE liveEngines
    /\ Goto(w, "progress30")
    /\ UNCHANGED <<jobs, is_processing, req, inputs, qs, st>>

\* app.py:235
rs_progress30(w) == Assign(w, "progress30", "progress", 30, "separate")

\* app.py:240
rs_separate(w) ==
    /\ worker[w].pc = "separate"
    /\ \/ Goto(w, "progress90")
       \/ Raise(w, "separate")
    /\ UNCHANGED <<jobs, is_processing, separator_instance, current_model,
                   liveEngines, req, inputs, qs, st>>

\* app.py:242
rs_progress90(w) == Assign(w, "progress90", "progress", 90, "files")

\* app.py:245-255: the stems directory exists or not
rs_files(w) ==
    /\ worker[w].pc = "files"
    /\ \/ jobs' = SetField(jobs, worker[w].job, "files",
                           StemFiles(JobOf(worker[w].job).stems))
       \/ UNCHANGED jobs
    /\ Goto(w, "complete")
    /\ UNCHANGED <<is_processing, separator_instance, current_model,
                   liveEngines, req, inputs, qs, st>>

\* app.py:257
rs_complete(w) == Assign(w, "complete", "status", "complete", "progress100")
\* app.py:258
rs_progress100(w) == Assign(w, "progress100", "progress", 100, "cleanup")

\* app.py:261-262: os.remove succeeds or raises OSError
rs_cleanup(w) ==
    /\ worker[w].pc = "cleanup"
    /\ IF worker[w].job \in inputs
       THEN \/ /\ inputs' = inputs \ {worker[w].job}
               /\ Goto(w, "recompute")
            \/ /\ Raise(w, "remove")
               /\ UNCHANGED inputs
       ELSE /\ Goto(w, "recompute")
            /\ UNCHANGED inputs
    /\ UNCHANGED <<jobs, is_processing, separator_instance, current_model,
                   liveEngines, req, qs, st>>

\* app.py:268
rs_except_status(w) == Assign(w, "except", "status", "error", "errdetail")

rs_except_detail_reraise(w) ==
    /\ worker[w].pc = "errdetail"
    /\ jobs' = SetField(jobs, worker[w].job, "error", worker[w].exc)
    /\ worker' = [worker EXCEPT ![w] = IdleWorker]
    /\ UNCHANGED <<is_processing, separator_instance, current_model,
                   liveEngines, req, inputs, qs, st>>
\* app.py:269, then the return to process_queue
rs_except_detail(w) ==
    /\ worker[w].pc = "errdetail"
    /\ jobs' = SetField(jobs, worker[w].job, "error", worker[w].exc)
    /\ Goto(w, "recompute")
    /\ UNCHANGED <<is_processing, separator_instance, current_model,
                   liveEngines, req, inputs, qs, st>>

(* ---------------------- /api/status (app.py:273-293) ------------------- *)
\* The handler holds no lock: each read of the job's dict is a step, and
\* run_separation or the renumbering may write between any two of them.
Read(f) == /\ st' = f
           /\ UNCHANGED <<jobs, is_processing, separator_instance, current_model,
                          liveEngines, req, worker, inputs, qs>>

\* app.py:275-278: a request for job id: 404 when the id is not in the store
get_job_status_begin ==
    /\ st.pc \in {"idle", "done", "notfound"}
    /\ \E id \in Reqs :
          IF InStore(id)
          THEN Read([IdleStatus EXCEPT !.pc = "status", !.job = id])
          ELSE Read([IdleStatus EXCEPT !.pc = "notfound", !.job = id])

\* app.py:280-282: 'status', 'progress' and 'files' of the response, read one
\* after the other
get_job_status_read ==
    \/ /\ st.pc = "status"
       /\ Read([st EXCEPT !.status = JobOf(st.job).status, !.pc = "progress"])
    \/ /\ st.pc = "progress"
       /\ Read([st EXCEPT !.progress = JobOf(st.job).progress, !.pc = "files"])
    \/ /\ st.pc = "files"
       /\ Read([st EXCEPT !.files = JobOf(st.job).files, !.pc = "if_queued"])

\* app.py:285, 288, 290: the chain of tests reads the status again, once per
\* test
get_job_status_branch ==
    \/ /\ st.pc = "if_queued"
       /\ Read([st EXCEPT !.pc = IF JobOf(st.job).status = "queued"
                                 THEN "position" ELSE "if_processing"])
    \/ /\ st.pc = "if_processing"
       /\ IF JobOf(st.job).status = "processing"
          THEN Read([st EXCEPT !.message = "processing", !.pc = "done"])
          ELSE Read([st EXCEPT !.pc = "if_error"])
    \/ /\ st.pc = "if_error"
       /\ Read([st EXCEPT !.pc = IF JobOf(st.job).status = "error"
                                 THEN "error" ELSE "done"])

\* app.py:286-287, 291: the fields of the branch taken; queue_position is
\* read once for the field and once more for the message; a job without the
\* key 'error' is answered 'Unknown error'
get_job_status_detail ==
    \/ /\ st.pc = "position"
       /\ Read([st EXCEPT !.queue_position = JobOf(st.job).queue_position,
                          !.pc = "message"])
    \/ /\ st.pc = "message"
       /\ Read([st EXCEPT !.message = "queue",
                          !.message_position = JobOf(st.job).queue_position + 1,
                          !.pc = "done"])
    \/ /\ st.pc = "error"
       /\ Read([st EXCEPT !.error = IF JobOf(st.job).error = NoError
                                    THEN "Unknown error" ELSE JobOf(st.job).error,
                          !.pc = "done"])

(* ---------------------- /api/queue (app.py:302-312) -------------------- *)
\* the three list comprehensions run one after the other, without queue_lock
NextScan(pc) == IF pc = "queued" THEN "processing"
                ELSE IF pc = "processing" THEN "completed"
                ELSE "done"
\* the status a scan counts
Counted(pc) == IF pc = "completed" THEN "complete" ELSE pc

\* iter(jobs.values()): the iterator notes the size of the dict and its first
\* entry; cur = 0 is an iterator that is exhausted
NewIterator(q) == [q EXCEPT !.cur = IF Len(jobs) > 0 THEN 1 ELSE 0,
                            !.n = Len(jobs)]

\* app.py:304: a request starts with the iterator of the first scan
get_queue_status_begin ==
    /\ qs.pc \in {"idle", "done", "failed"}
    /\ qs' = NewIterator([IdleQueueStatus EXCEPT !.pc = "queued"])
    /\ UNCHANGED <<jobs, is_processing, separator_instance, current_model,
                   liveEngines, req, worker, inputs, st>>

\* app.py:304-306: the iterator step of the current scan.  An exhausted
\* iterator ends the scan without looking at the dict, and the next scan
\* makes its iterator.  An iterator that still has an entry to yield raises
\* RuntimeError when the dict has changed since the iterator was made; else
\* it yields the entry as j and moves on to the entry after it, or is
\* exhausted when there is none.
get_queue_status_next ==
    /\ qs.pc \in {"queued", "processing", "completed"}
    /\ qs.j = 0
    /\ IF qs.cur = 0
       THEN IF NextScan(qs.pc) = "done"
            THEN qs' = [qs EXCEPT !.pc = "done"]
            ELSE qs' = NewIterator([qs EXCEPT !.pc = NextScan(qs.pc)])
       ELSE IF Len(jobs) # qs.n
            THEN qs' = [qs EXCEPT !.pc = "failed"]
            ELSE qs' = [qs EXCEPT !.j = qs.cur,
                                  !.cur = IF qs.cur < Len(jobs)
                                          THEN qs.cur + 1 ELSE 0]
    /\ UNCHANGED <<jobs, is_processing, separator_instance, current_model,
                   liveEngines, req, worker, inputs, st>>

\* app.py:304-306: the test j['status'] == ... on the entry the iterator has
\* yielded, a step of its own: other threads may run between the two
get_queue_status_read ==
    /\ qs.pc \in {"queued", "processing", "completed"}
    /\ qs.j # 0
    /\ qs' = [qs EXCEPT !.j = 0,
                        ![qs.pc] = IF jobs[qs.j].status = Counted(qs.pc)
                                   THEN qs[qs.pc] + 1 ELSE qs[qs.pc]]
    /\ UNCHANGED <<jobs, is_processing, separator_instance, current_model,
                   liveEngines, req, worker, inputs, st>>

(* ---------------------------- specification ---------------------------- *)
RequestStep(r) ==
    \/ separate_audio_lock(r)
    \/ separate_audio_count(r)
    \/ separate_audio_insert(r)
    \/ start_queue_processor(r)
    \/ thread_start(r)

WorkerStep(w) ==
    \/ process_queue_scan(w)
    \/ rs_status(w)
    \/ rs_progress5(w)
    \/ rs_qpos0(w)
    \/ rs_clear(w)
    \/ rs_progress10(w)
    \/ rs_load(w)
    \/ rs_bind(w)
    \/ rs_progress30(w)
    \/ rs_separate(w)
    \/ rs_progress90(w)
    \/ rs_files(w)
    \/ rs_complete(w)
    \/ rs_progress100(w)
    \/ rs_cleanup(w)
    \/ rs_except_status(w)
    \/ rs_except_detail(w)
    \/ process_queue_recompute_begin(w)
    \/ process_queue_recompute(w)

Next ==
    \/ \E r \in Reqs : separate_audio_admit(r)
    \/ \E r \in Reqs : RequestStep(r)
    \/ \E w \in Workers : WorkerStep(w)

Spec == Init /\ [][Next]_vars

\* the id of a job submitted and run before the submissions of Reqs
EarlierJob == MaxReq + 1

\* The program after one earlier submission with a supported profile has
\* been run to 'complete' and the worker loop has returned: the job is in
\* the store with its files, its input is removed, and the engine built for
\* it stays cached (app.py:230-262, 188-190).  The request thread of that
\* submission has ended.
AfterOneJob ==
    \E p \in Supported :
        /\ jobs = <<[id |-> EarlierJob, status |-> "complete", progress |-> 100,
                     stems |-> p, files |-> StemFiles(p), queue_position |-> 0,
                     error |-> NoError]>>
        /\ is_processing = FALSE
        /\ separator_instance = ModelName(p)
        /\ current_model = ModelName(p)
        /\ liveEngines = 1
        /\ req = [r \in Reqs |-> IdleRequest]
        /\ worker = [w \in Workers |-> IdleWorker]
        /\ inputs = {}
        /\ qs = IdleQueueStatus
        /\ st = IdleStatus

\* the submissions of Reqs arriving at a fresh server or at a server that
\* has run a job before, so that up to MaxReq + 1 jobs pass through the
\* engine cache
CacheSpec == (Init \/ AfterOneJob) /\ [][Next]_vars

\* threads that have started keep being scheduled; engine calls return or raise
LiveSpec ==
    /\ Init /\ [][Next]_vars
    /\ \A r \in Reqs : WF_vars(RequestStep(r))
    /\ \A w \in Workers : WF_vars(WorkerStep(w))

\* the queue with a client of /api/queue next to it
QueueNext ==
    \/ Next
    \/ get_queue_status_begin
    \/ get_queue_status_next
    \/ get_queue_status_read

QueueSpec == Init /\ [][QueueNext]_vars

\* the queue with a client of /api/status next to it
StatusNext ==
    \/ Next
    \/ get_job_status_begin
    \/ get_job_status_read
    \/ get_job_status_branch
    \/ get_job_status_detail

StatusSpec == Init /\ [][StatusNext]_vars

TypeOK ==
    /\ is_processing \in BOOLEAN
    /\ liveEngines \in 0..2
    /\ \A i \in DOMAIN jobs :
          /\ jobs[i].status \in {"queued", "processing", "complete", "error"}
          /\ jobs[i].progress \in 0..100
          /\ jobs[i].stems \in StemsInputs \ {"5"}

(* ------------------------------ properties ----------------------------- *)
Status(i) == jobs[i].status
Processing == {i \in DOMAIN jobs : Status(i) = "processing"}
Queued == {i \in DOMAIN jobs : Status(i) = "queued"}

\* every job of the store is 'complete' or 'error'
AllSettled == \A i \in DOMAIN jobs : Status(i) \in Terminal

\* C1: in every reachable state at most one job has status 'processing'
C1_AtMostOneProcessing == Cardinality(Processing) <= 1

\* a job is being processed while a later submission waits in the store
C1_Witness ==
    /\ Len(jobs) = 2
    /\ Status(1) = "processing"
    /\ Status(2) = "queued"

\* C2: jobs run in insertion order: a job has left 'queued' only if every
\* job inserted before it is already terminal
C2_FifoOrder ==
    \A i, k \in DOMAIN jobs :
        (i < k /\ Status(k) # "queued") => Status(i) \in Terminal

\* the second job runs after the first one has finished
C2_Witness ==
    /\ Len(jobs) = 2
    /\ Status(1) \in Terminal
    /\ Status(2) = "processing"

\* C3: a job that is 'complete' or 'error' keeps its status, its progress
\* and its files list in every later step
C3_TerminalImmutable ==
    [][\A i \in DOMAIN jobs :
          Status(i) \in Terminal =>
              /\ jobs'[i].status = jobs[i].status
              /\ jobs'[i].progress = jobs[i].progress
              /\ jobs'[i].files = jobs[i].files]_vars

\* the step of worker w that handles an engine failure (app.py:268-269)
EngineFailureStep(w) ==
    /\ worker[w].pc \in {"except", "errdetail"}
    /\ worker[w].exc \in {"construct", "separate"}
    /\ worker'[w] # worker[w]

\* C4: an engine construction or execution failure on job J puts J, and only
\* J, into 'error' with a detail recorded, and the loop survives: the worker
\* returns to process_queue, a job becomes terminal only from 'processing',
\* and once a job has failed in the engine the jobs still waiting or running
\* all reach a terminal state
C4_FailureIsolated ==
    /\ [][\A w \in Workers : EngineFailureStep(w) =>
             /\ \A i \in DOMAIN jobs :
                   jobs[i].id # worker[w].job => jobs'[i] = jobs[i]
             /\ (worker[w].pc = "except") =>
                   JobIn(jobs', worker[w].job).status = "error"
             /\ (worker[w].pc = "errdetail") =>
                   /\ JobIn(jobs', worker[w].job).status = "error"
                   /\ JobIn(jobs', worker[w].job).error \in {"construct", "separate"}
                   /\ worker'[w].pc = "recompute"]_vars
    /\ [][\A i \in DOMAIN jobs :
             (Status(i) \notin Terminal /\ jobs'[i].status \in Terminal) =>
                 Status(i) = "processing"]_vars
    /\ ((\E i \in DOMAIN jobs : Status(i) = "error" /\ jobs[i].progress < 90)
           /\ ~AllSettled)
         ~> AllSettled

\* the first job failed in the engine and the second one was run to the end
C4_Witness ==
    /\ Len(jobs) = 2
    /\ Status(1) = "error"
    /\ jobs[1].error \in {"construct", "separate"}
    /\ Status(2) = "complete"

\* C5: the job a submission inserts is 'queued' and its queue_position is the
\* number of 'queued' or 'processing' jobs in the store at the moment of the
\* insertion; when no stored job is terminal, the K-th job gets K-1
C5_PositionAtInsert ==
    [][\A r \in Reqs :
          (req[r].pc = "count" /\ req'[r].pc = "start") =>
              /\ Len(jobs') = Len(jobs) + 1
              /\ jobs'[Len(jobs')].id = r
              /\ jobs'[Len(jobs')].status = "queued"
              /\ jobs'[Len(jobs')].queue_position =
                    Len(jobs) - Cardinality({i \in DOMAIN jobs : Status(i) \in Terminal})
              /\ (\A i \in DOMAIN jobs : Status(i) \notin Terminal) =>
                    jobs'[Len(jobs')].queue_position = Len(jobs)]_vars

\* C6: the queue_position values of the 'queued' jobs are exactly 0..n-1,
\* increasing in insertion order
C6_DensePositions ==
    \A i \in Queued :
        jobs[i].queue_position = Cardinality({k \in Queued : k < i})

\* app.py:286  the queue_position a status request reads for the job at
\* position i of the store, at the moment it reads it
ObservedPosition(js, i) == js[i].queue_position

\* C7: while a job stays 'queued' the position a client reads never grows,
\* and between two reads it drops by at most the number of earlier jobs that
\* became terminal in between (any two instants can be two reads, so this is
\* stated for every step)
C7_PositionTracksCompletions ==
    [][\A i \in DOMAIN jobs :
          (Status(i) = "queued" /\ jobs'[i].status = "queued") =>
              /\ ObservedPosition(jobs', i) <= ObservedPosition(jobs, i)
              /\ ObservedPosition(jobs, i) - ObservedPosition(jobs', i) <=
                    Cardinality({k \in 1..(i-1) :
                        Status(k) \notin Terminal /\ jobs'[k].status \in Terminal})]_vars

\* C8: a submission measured longer than MAX_DURATION_SECONDS is rejected,
\* never gets a job, and its rejection leaves jobs, is_processing and the
\* worker threads as they were; a duration equal to the ceiling is accepted
C8_TooLongRejected ==
    /\ [](\A r \in Reqs :
            /\ req[r].pc = "rejected" =>
                  (req[r].duration > MAX_DURATION_SECONDS /\ ~InStore(r))
            /\ req[r].pc = "insert" => req[r].duration <= MAX_DURATION_SECONDS)
    /\ [][\A r \in Reqs :
            (req[r].pc # "rejected" /\ req'[r].pc = "rejected") =>
                UNCHANGED <<jobs, is_processing, worker>>]_vars

\* a submission was rejected while an accepted job sits in the store
C8_Witness ==
    /\ \E r \in Reqs : req[r].pc = "rejected"
    /\ Len(jobs) = 1
    /\ Status(1) = "processing"

\* C9: never two live engine instances: a Separator is constructed only
\* while separator_instance is None
C9_OneLiveEngine ==
    /\ liveEngines <= 1
    /\ \A w \in Workers : worker[w].pc = "bind" => separator_instance = None

\* an instance for a second profile is live after a job with the first one
C9_Witness ==
    /\ Len(jobs) = 2
    /\ jobs[1].stems # jobs[2].stems
    /\ jobs[1].progress >= 30
    /\ Status(2) = "processing"
    /\ separator_instance = ModelName(jobs[2].stems)
    /\ liveEngines = 1

\* C10: every accepted job eventually reaches a terminal state: whenever the
\* store holds a job that is not terminal, a state follows in which every
\* stored job is terminal (jobs are never removed from the store)
C10_EveryJobTerminates == (~AllSettled) ~> AllSettled

\* a job is inserted after the worker found nothing and returned
C10_Witness ==
    /\ Len(jobs) = 2
    /\ Status(1) \in Terminal
    /\ Status(2) = "queued"
    /\ ~is_processing
    /\ \A w \in Workers : worker[w].pc = "idle"

\* C11: every job in the store has a supported profile: '5' was downgraded
\* to '4', and a submission with a malformed 'stems' value got no job
C11_OnlySupportedProfiles ==
    \A i \in DOMAIN jobs : jobs[i].stems \in Supported

\* C12: the store is bounded by a sweep: once it holds more than
\* SweepCapacity jobs, terminal jobs are deleted until at most SweepFloor
\* are left, and a job that is 'queued' or 'processing' is never deleted
C12_StoreSwept ==
    /\ (Len(jobs) > SweepCapacity)
          ~> (Cardinality({i \in DOMAIN jobs : Status(i) \in Terminal}) <= SweepFloor)
    /\ [][\A i \in DOMAIN jobs :
             Status(i) \notin Terminal =>
                 \E k \in DOMAIN jobs' : jobs'[k].id = jobs[i].id]_vars

\* the process_queue threads that have not returned
ActiveLoops == {w \in Workers : worker[w].pc # "idle"}
\* the requests that have set is_processing and are about to start a thread
StartingLoops == {r \in Reqs : req[r].pc = "spawn"}

\* C13: at most one worker loop is active or being started at any time, and
\* is_processing is True whenever there is one
C13_SingleLoop ==
    /\ Cardinality(ActiveLoops) + Cardinality(StartingLoops) <= 1
    /\ (ActiveLoops # {} \/ StartingLoops # {}) => is_processing

\* both submissions have been through start_queue_processor and one loop runs
C13_Witness ==
    /\ \A r \in Reqs : req[r].pc = "done"
    /\ Len(jobs) = 2
    /\ Status(1) = "processing"
    /\ Status(2) = "queued"
    /\ Cardinality(ActiveLoops) = 1

\* C14: when os.remove fails in the cleanup of a job just marked 'complete',
\* the failure is swallowed: in every later step of that worker on the job
\* it stays 'complete' with progress 100, keeps its files list and gets no
\* error detail, and the worker thread lives on
C14_CleanupFailureSwallowed ==
    [][\A w \in Workers :
          worker[w].exc = "remove" =>
              /\ JobIn(jobs', worker[w].job).status = "complete"
              /\ JobIn(jobs', worker[w].job).progress = 100
              /\ JobIn(jobs', worker[w].job).files = JobOf(worker[w].job).files
              /\ JobIn(jobs', worker[w].job).error = NoError
              /\ worker'[w].pc # "idle"]_vars

\* a worker is still inside run_separation, or before its next scan, for
\* the job at position i
HandledBy(i) == \E w \in Workers : worker[w].job = jobs[i].id

\* run_separation reached the removal of the input file of the job at
\* position i (app.py:261 follows the write of progress 100)
RemovalAttempted(i) == jobs[i].progress = 100

\* C15: once a job is terminal and the worker has moved on to its next scan,
\* the removal of the job's input file has been attempted; a job that ended
\* in 'error' through an engine failure does not keep its input file
C15_InputRemovedWhenTerminal ==
    \A i \in DOMAIN jobs :
        (Status(i) \in Terminal /\ ~HandledBy(i)) =>
            /\ RemovalAttempted(i)
            /\ jobs[i].error \in {"construct", "separate"} => jobs[i].id \notin inputs

\* the model run_separation wants for the job worker w is running
WantedModel(w) == ModelName(JobOf(worker[w].job).stems)

\* C16: the engine is constructed per profile change, not per job: when the
\* cached instance was built for the job's profile, run_separation neither
\* releases nor constructs; a construction is started only when the cache is
\* empty or holds another profile
C16_ReuseOnSameProfile ==
    [][\A w \in Workers :
          worker[w].pc \in {"clear", "load"} =>
              /\ (separator_instance # None /\ current_model = WantedModel(w)) =>
                    /\ separator_instance' = separator_instance
                    /\ liveEngines' = liveEngines
                    /\ worker'[w].pc \in {worker[w].pc, "progress10", "progress30"}
              /\ (worker[w].pc = "load" /\ worker'[w].pc \in {"bind", "except"}) =>
                    (separator_instance = None \/ current_model # WantedModel(w))]_vars

\* the second job runs on the instance the first job constructed
C16_Witness ==
    /\ Len(jobs) = 2
    /\ jobs[1].stems = jobs[2].stems
    /\ Status(1) = "complete"
    /\ Status(2) = "processing"
    /\ jobs[2].progress = 30
    /\ separator_instance = ModelName(jobs[2].stems)
    /\ current_model = separator_instance
    /\ liveEngines = 1

\* C17: a failed engine construction leaves the cache empty and is reported
\* on the job: when Separator(model) raises, separator_instance is None and
\* no instance is live; the job gets status 'error' with the construction
\* failure as detail; a job that finds the cache empty constructs afresh
\* whatever current_model says; and the engine is only ever invoked on an
\* instance built for the job's own profile
C17_FailedConstructionEmptiesCache ==
    /\ [][\A w \in Workers :
             /\ (worker[w].pc = "load" /\ worker'[w].pc = "except") =>
                   (separator_instance' = None /\ liveEngines' = 0)
             /\ (worker[w].pc = "errdetail" /\ worker[w].exc = "construct"
                    /\ worker'[w] # worker[w]) =>
                   /\ JobIn(jobs', worker[w].job).status = "error"
                   /\ JobIn(jobs', worker[w].job).error = "construct"
             /\ (worker[w].pc = "load" /\ separator_instance = None
                    /\ worker'[w] # worker[w]) =>
                   worker'[w].pc \in {"bind", "except"}]_vars
    /\ [](\A w \in Workers :
             worker[w].pc \in {"progress30", "separate"} =>
                 separator_instance = WantedModel(w))

\* after an instance for one profile was cached, the construction for
\* another profile failed, and the next job asks for the profile still
\* recorded in current_model: the cache was empty, and a fresh instance has
\* been constructed and is about to be bound
C17_Witness ==
    /\ \E i \in DOMAIN jobs : Status(i) = "error" /\ jobs[i].error = "construct"
    /\ \E w \in Workers :
          /\ worker[w].pc = "bind"
          /\ separator_instance = None
          /\ current_model = WantedModel(w)
          /\ liveEngines = 1

\* C18: progress is an integer in 0..100, a 'complete' job always shows
\* progress 100, in the store and in every answer of a status request,
\* progress never decreases while the job is 'processing' and does not
\* change once the job is 'complete' or 'error'
C18_ProgressDiscipline ==
    /\ [](\A i \in DOMAIN jobs :
             /\ jobs[i].progress \in 0..100
             /\ Status(i) = "complete" => jobs[i].progress = 100)
    /\ []((st.pc = "done" /\ st.status = "complete") => st.progress = 100)
    /\ [][\A i \in DOMAIN jobs :
             /\ (Status(i) = "processing" /\ jobs'[i].status = "processing") =>
                   jobs'[i].progress >= jobs[i].progress
             /\ Status(i) \in Terminal => jobs'[i].progress = jobs[i].progress]_vars

\* C19: a job that is 'queued', 'processing' or 'error' has an empty files
\* list, in the store and in every answer of a status request
C19_FilesOnlyWhenComplete ==
    /\ \A i \in DOMAIN jobs : Status(i) # "complete" => jobs[i].files = {}
    /\ (st.pc = "done" /\ st.status # "complete") => st.files = {}

\* C20: the counts of one /api/queue answer describe a single state of the
\* store: together they never exceed the number of stored jobs
C20_QueueCountsConsistent ==
    qs.pc = "done" => qs.queued + qs.processing + qs.completed <= Len(jobs)

====
